---------------------------- MODULE Spec2Model ----------------------------
(***************************************************************************)
(* A state-machine model of the three entry points of the repository:      *)
(*   harvest      (src/lab2/harvest.py)                                    *)
(*   skattningar  (src/lab3/skattningar.py)                                *)
(*   styrkefkn    (src/lab3/styrkefkn.py)                                  *)
(* Every call is one atomic action.  The process-wide state the calls      *)
(* touch is the position of numpy's global random stream (rng) and         *)
(* pyplot's registry of open figures (figs).                               *)
(*                                                                         *)
(* Numbers.  Probabilities and table entries of harvest are exact          *)
(* rationals <<num, den>> kept in lowest terms.  A value of the log-domain *)
(* vector of harvest is stored by its antilogarithm, so that adding two    *)
(* logarithms is multiplying the stored rationals, with the IEEE specials  *)
(* -inf, +inf and nan kept as separate kinds.  exp(-1) is rounded to the   *)
(* rational ExpM1.  Quantities of the normal distribution (lab3) are       *)
(* fixed-point integers with Unit steps per 1.0; probabilities of lab3 are *)
(* integers in steps of 1/Prob.                                            *)
(***************************************************************************)
EXTENDS Integers, Sequences, FiniteSets, TLC

\* An optional argument: None, or Some(v) holding the value v
None == <<>>
Some(v) == <<v>>
Val(o) == o[1]

(***************************************************************************)
(* Exact rational arithmetic.                                              *)
(***************************************************************************)
Abs(a) == IF a < 0 THEN -a ELSE a

\* Euclid's algorithm, as a recursive function of the pair
GCD(a, b) ==
    LET g[m \in Nat, k \in Nat] == IF k = 0 THEN m ELSE g[k, m % k]
    IN  g[a, b]

Rat(a, b) ==
    LET g == GCD(Abs(a), Abs(b))
        s == IF b < 0 THEN -1 ELSE 1
    IN  <<(s * a) \div g, (s * b) \div g>>

RZero == <<0, 1>>
ROne == <<1, 1>>
RInt(k) == <<k, 1>>

RMul(q, r) ==
    LET g1 == GCD(Abs(q[1]), r[2])
        g2 == GCD(Abs(r[1]), q[2])
    IN  Rat((q[1] \div g1) * (r[1] \div g2), (q[2] \div g2) * (r[2] \div g1))

RAdd(q, r) ==
    LET g == GCD(q[2], r[2])
    IN  Rat(q[1] * (r[2] \div g) + r[1] * (q[2] \div g), (q[2] \div g) * r[2])

RSub(q, r) == RAdd(q, <<-r[1], r[2]>>)
RDiv(q, r) == RMul(q, IF r[1] < 0 THEN <<-r[2], -r[1]>> ELSE <<r[2], r[1]>>)
RLt(q, r) == q[1] * r[2] < r[1] * q[2]
RLeq(q, r) == q[1] * r[2] <= r[1] * q[2]

\* The set of pairs that hold a rational
Q == Int \X Int

\* q^k, one factor at a time
RPow(q, k) ==
    LET f[i \in 0..k, acc \in Q] == IF i = k THEN acc ELSE f[i + 1, RMul(acc, q)]
    IN  f[0, ROne]

Fact(k) ==
    LET f[i \in 0..k, acc \in Nat] == IF i = k THEN acc ELSE f[i + 1, acc * (i + 1)]
    IN  f[0, 1]

Choose(n, k) == Fact(n) \div (Fact(k) * Fact(n - k))

\* the sum s[1] + s[2] + ... of a sequence of rationals
RSum(s) ==
    LET f[i \in 0..Len(s), acc \in Q] == IF i = Len(s) THEN acc ELSE f[i + 1, RAdd(acc, s[i + 1])]
    IN  f[0, RZero]

(***************************************************************************)
(* Bounds of the inputs.                                                   *)
(***************************************************************************)
MaxN == 3
MaxLam == 4
MaxYCond == 5
MaxCalls == 2
MaxSeed == 1

PSet == {<<0, 1>>, <<1, 2>>, <<1, 1>>}
MuSet == {1, 2}

(***************************************************************************)
(* IEEE values of the conditional vector of harvest.  Num(q) is the finite *)
(* number q.  In the log domain Log(q) is the finite logarithm of the      *)
(* positive rational q.                                                    *)
(***************************************************************************)
NaN == [t |-> "nan"]
NegInf == [t |-> "-inf"]
PosInf == [t |-> "+inf"]
Num(q) == [t |-> "num", v |-> q]
Log(q) == [t |-> "log", e |-> q]
IEEE == [t : {"nan", "-inf", "+inf"}] \cup [t : {"num"}, v : Q] \cup [t : {"log"}, e : Q]

\* exp(-1), rounded
ExpM1 == <<1, 3>>

\* np.exp(-j) for an integer j >= 0
ExpNeg(j) == RPow(ExpM1, j)

\* np.log of a number q >= 0: log(0) is -inf
NpLog(q) == IF q[1] = 0 THEN NegInf ELSE Log(q)

\* a + b in the log domain; b finite
LogAdd(a, b) ==
    CASE a.t = "nan" -> NaN
      [] a.t = "-inf" -> NegInf
      [] a.t = "+inf" -> PosInf
      [] OTHER -> Log(RMul(a.e, b.e))

\* a - b in the log domain: (-inf) - (-inf) is nan
LogSub(a, b) ==
    CASE a.t = "nan" \/ b.t = "nan" -> NaN
      [] a.t = "-inf" /\ b.t = "-inf" -> NaN
      [] a.t = "+inf" /\ b.t = "+inf" -> NaN
      [] a.t = "-inf" \/ b.t = "+inf" -> NegInf
      [] a.t = "+inf" \/ b.t = "-inf" -> PosInf
      [] OTHER -> Log(RDiv(a.e, b.e))

\* a > b in the log domain; false when either is nan
LogGt(a, b) ==
    CASE a.t = "nan" \/ b.t = "nan" -> FALSE
      [] a.t = "-inf" -> FALSE
      [] b.t = "-inf" -> TRUE
      [] a.t = "+inf" -> b.t # "+inf"
      [] b.t = "+inf" -> FALSE
      [] OTHER -> RLt(b.e, a.e)

\* np.exp: back to the standard scale
NpExp(a) ==
    CASE a.t = "nan" -> NaN
      [] a.t = "-inf" -> Num(RZero)
      [] a.t = "+inf" -> PosInf
      [] OTHER -> Num(a.e)

\* a + b of two values of the standard scale (none negative here)
FAdd(a, b) ==
    CASE a.t = "nan" \/ b.t = "nan" -> NaN
      [] a.t = "+inf" \/ b.t = "+inf" -> PosInf
      [] OTHER -> Num(RAdd(a.v, b.v))

\* a / b of two values of the standard scale (none negative here)
FDiv(a, b) ==
    CASE a.t = "nan" \/ b.t = "nan" -> NaN
      [] a.t = "+inf" /\ b.t = "+inf" -> NaN
      [] a.t = "+inf" -> PosInf
      [] b.t = "+inf" -> Num(RZero)
      [] b.v[1] = 0 -> IF a.v[1] = 0 THEN NaN ELSE PosInf
      [] OTHER -> Num(RDiv(a.v, b.v))

\* Python's max(seq): the first element no later element exceeds
PyMax(s) ==
    LET f[i \in 1..Len(s), best \in IEEE] ==
            IF i = Len(s) THEN best
            ELSE f[i + 1, IF LogGt(s[i + 1], best) THEN s[i + 1] ELSE best]
    IN  f[1, s[1]]

\* Python's sum(seq): 0 + s[1] + s[2] + ...
PySum(s) ==
    LET f[i \in 0..Len(s), acc \in IEEE] ==
            IF i = Len(s) THEN acc ELSE f[i + 1, FAdd(acc, s[i + 1])]
    IN  f[0, Num(RZero)]

(***************************************************************************)
(* scipy.stats mass functions.                                             *)
(***************************************************************************)
\* stats.binom.pmf(k, n, p), with 0^0 = 1
BinomPmf(k, n, p) ==
    RMul(RInt(Choose(n, k)), RMul(RPow(p, k), RPow(RSub(ROne, p), n - k)))

\* stats.poisson.pmf(l, lam) = exp(-lam) * lam^l / l! for an integer lam >= 0,
\* with 0^0 = 1; the product is built factor by factor, lam/i at a time
PoissonPmf(l, lam) ==
    LET f[i \in 0..l, acc \in Q] ==
            IF i = l THEN acc ELSE f[i + 1, RMul(acc, Rat(lam, i + 1))]
    IN  f[0, ExpNeg(lam)]

(***************************************************************************)
(* harvest, lines 44-54: the support of Y.                                 *)
(***************************************************************************)
tot_E(n, p, mu) == RMul(RInt(n * mu), p)
tot_V(n, p, mu) == RMul(tot_E(n, p, mu), RAdd(ROne, RMul(RInt(mu), RSub(ROne, p))))

\* m >= E + 4*sqrt(V) for an integer m, decided without taking the root
GeqBound(m, E, V) ==
    LET d == RSub(RInt(m), E)
    IN  d[1] >= 0 /\ RLeq(RMul(RInt(16), V), RMul(d, d))

\* m <= E + 4*sqrt(V) for an integer m
LeqBound(m, E, V) ==
    LET d == RSub(RInt(m), E)
    IN  d[1] <= 0 \/ RLeq(RMul(d, d), RMul(RInt(16), V))

\* Ymax, had lines 49-50 been left out
YmaxNotExtended(n, p, mu, y_cond) == [E |-> tot_E(n, p, mu), V |-> tot_V(n, p, mu)]

\* The value of Ymax after lines 47-50: the bound tot_E + 4*sqrt(tot_V), kept
\* as the pair of its two parts, or y_cond when max([Ymax, y_cond]) picks it,
\* which Python's max does only when y_cond is strictly larger.
Ymax(n, p, mu, y_cond) ==
    LET E == tot_E(n, p, mu)
        V == tot_V(n, p, mu)
    IN  IF y_cond # None /\ ~LeqBound(Val(y_cond), E, V)
        THEN [int |-> Val(y_cond)]
        ELSE [E |-> E, V |-> V]

\* ceil(v) of a value of Ymax
Ceil(v) ==
    LET up[m \in Nat] == IF GeqBound(m, v.E, v.V) THEN m ELSE up[m + 1]
    IN  IF "int" \in DOMAIN v THEN v.int ELSE up[0]

\* np.arange(stop): 0, 1, ..., ceil(stop) - 1
Arange(ceilStop) == [i \in 1..ceilStop |-> i - 1]

\* np.meshgrid(x, y): two tables of Len(y) rows and Len(x) columns
Meshgrid(x, y) ==
    [X_in |-> [i \in 1..Len(y) |-> [j \in 1..Len(x) |-> x[j]]],
     Y_in |-> [i \in 1..Len(y) |-> [j \in 1..Len(x) |-> y[i]]]]

\* SumAxis1, had the sum run along the other axis: one entry per column
SumAxis0(M) == [j \in 1..Len(M[1]) |-> RSum([i \in 1..Len(M) |-> M[i][j]])]

\* M.sum(axis=1): one entry per row, the sum along the row
SumAxis1(M) == [i \in 1..Len(M) |-> RSum(M[i])]

\* harvest, lines 59-61
JointTable(g, n, p, mu) ==
    [i \in 1..Len(g.X_in) |-> [j \in 1..Len(g.X_in[i]) |->
        RMul(BinomPmf(g.X_in[i][j], n, p),
             PoissonPmf(g.Y_in[i][j], g.X_in[i][j] * mu))]]

(***************************************************************************)
(* harvest, lines 70-78: the conditional vector in the log domain.         *)
(***************************************************************************)
\* line 70: np.log(stats.binom.pmf(x,n,p)) - x*mu
CondStep70(x, n, p, mu) ==
    [i \in 1..Len(x) |->
        LogAdd(NpLog(BinomPmf(x[i], n, p)), Log(ExpNeg(x[i] * mu)))]

\* line 72: pX_Y[1:] = pX_Y[1:] + y_cond*np.log(x[1:]*mu)
CondStep72(v, x, mu, y_cond) ==
    [i \in 1..Len(v) |->
        IF i = 1 THEN v[i] ELSE LogAdd(v[i], Log(RPow(RInt(x[i] * mu), y_cond)))]

\* line 74: pX_Y[0] = -np.Inf
CondStep74(v) == [i \in 1..Len(v) |-> IF i = 1 THEN NegInf ELSE v[i]]

\* line 76: np.exp(pX_Y-max(pX_Y))
CondStep76(v) == LET m == PyMax(v) IN [i \in 1..Len(v) |-> NpExp(LogSub(v[i], m))]

\* line 78: pX_Y / sum(pX_Y)
CondStep78(v) == LET s == PySum(v) IN [i \in 1..Len(v) |-> FDiv(v[i], s)]

Conditional(x, n, p, mu, y_cond) ==
    CondStep78(CondStep76(CondStep74(CondStep72(CondStep70(x, n, p, mu), x, mu, y_cond))))

(***************************************************************************)
(* The normal distribution of lab3, in fixed point.  A quantity x is the   *)
(* integer x*Unit, a probability q the integer q*Prob.  The standard       *)
(* normal distribution function is tabulated at the knots of PhiKnots and  *)
(* linear in between; the quantile function is its inverse.                *)
(***************************************************************************)
Unit == 4 * 1000
Prob == 10 * 100

Fin(v) == [t |-> "fin", v |-> v]

PhiKnots ==
    << <<-16000, 0>>, <<-12360, 1>>, <<-9304, 10>>, <<-7840, 25>>, <<-6580, 50>>,
       <<-5128, 100>>, <<-3368, 200>>, <<0, 500>>, <<3368, 800>>, <<5128, 900>>,
       <<6580, 950>>, <<7840, 975>>, <<9304, 990>>, <<12360, 999>>, <<16000, Prob>> >>

\* Phi(z), z in Units
StdCdf(z) ==
    IF z <= PhiKnots[1][1] THEN 0
    ELSE IF z >= PhiKnots[Len(PhiKnots)][1] THEN Prob
    ELSE LET i == CHOOSE j \in 1..(Len(PhiKnots) - 1) :
                      PhiKnots[j][1] <= z /\ z < PhiKnots[j + 1][1]
             a == PhiKnots[i]
             b == PhiKnots[i + 1]
         IN  a[2] + ((z - a[1]) * (b[2] - a[2])) \div (b[1] - a[1])

\* the q-quantile of the standard normal, 0 < q < Prob
StdPpf(q) ==
    LET i == CHOOSE j \in 1..(Len(PhiKnots) - 1) :
                 PhiKnots[j][2] <= q /\ q < PhiKnots[j + 1][2]
        a == PhiKnots[i]
        b == PhiKnots[i + 1]
    IN  a[1] + ((q - a[2]) * (b[1] - a[1])) \div (b[2] - a[2])

\* stats.norm.ppf(q, loc, scale)
NormPpf(q, loc, scale) == loc + (StdPpf(q) * scale) \div Unit

\* stats.norm.cdf(k, loc, scale); k may be np.Inf or -np.Inf
NormCdf(k, loc, scale) ==
    CASE k.t = "+inf" -> Prob
      [] k.t = "-inf" -> 0
      [] OTHER -> StdCdf(((k.v - loc) * Unit) \div scale)

\* np.sqrt(n) of a perfect square n
NpSqrt(n) == CHOOSE r \in 0..n : r * r = n

\* np.sign
Sign(v) == IF v > 0 THEN 1 ELSE IF v < 0 THEN -1 ELSE 0

(***************************************************************************)
(* numpy's global random stream.  The state of the generator is the        *)
(* position rng in its stream; the standard normal variate at position i   *)
(* is StreamZ(i).                                                          *)
(***************************************************************************)
ZCycle == <<0, -7840, 1960, -1960, 7840, 0, 9800, 0, -9800>>

StreamZ(i) == ZCycle[(i % Len(ZCycle)) + 1]

\* RngAfter, had the draws left the generator where it was
RngAfterUnmoved(pos, size) == pos

\* the position of the stream after size variates were drawn from position pos
RngAfter(pos, size) == pos + size

\* stats.norm.rvs(mu, sigma, size) drawn from position pos on: the flat sample
NormRvs(mu, sigma, size, pos) ==
    [i \in 1..size |-> mu + (sigma * StreamZ(pos + i - 1)) \div Unit]

\* a.reshape((rows, cols)) of a flat array, row-major
Reshape(a, rows, cols) ==
    [r \in 1..rows |-> [c \in 1..cols |-> a[(r - 1) * cols + c]]]

\* the sum of a sequence of integers
ISum(s) ==
    LET f[i \in 0..Len(s), acc \in Int] == IF i = Len(s) THEN acc ELSE f[i + 1, acc + s[i + 1]]
    IN  f[0, 0]

\* M.mean(axis=1): one mean per row
MeanAxis1(M) == [r \in 1..Len(M) |-> ISum(M[r]) \div Len(M[r])]

(***************************************************************************)
(* The state.                                                              *)
(*   rng    position of numpy's global random stream                       *)
(*   figs   pyplot's registry of open figures: the set of figure numbers   *)
(*   call   the entry point last called, with its arguments                *)
(*   ret    how that call ended: a returned figure or a raised error       *)
(*   loc    the values the call computed (its locals)                      *)
(*   ncalls the number of calls made                                       *)
(***************************************************************************)
VARIABLES rng, figs, call, ret, loc, ncalls

vars == <<rng, figs, call, ret, loc, ncalls>>

Init ==
    /\ rng \in 0..MaxSeed
    /\ figs = {}
    /\ call = [fn |-> "none"]
    /\ ret = [kind |-> "none"]
    /\ loc = [fn |-> "none"]
    /\ ncalls = 0

\* plt.figure() / plt.subplots(): the new figure gets the next free number
\* and is entered in the registry
NextNum(reg) == IF reg = {} THEN 1 ELSE 1 + CHOOSE m \in reg : \A k \in reg : k <= m

Figure(num, naxes) == [kind |-> "Figure", fig |-> num, naxes |-> naxes]
ValueError(msg) == [kind |-> "ValueError", msg |-> msg]

(***************************************************************************)
(* harvest(n, p, mu, y_cond=None)                                          *)
(***************************************************************************)
harvest(n, p, mu, y_cond) ==
    LET ymax == Ymax(n, p, mu, y_cond)
        x == Arange(n + 1)
        y == Arange(Ceil(ymax) + 1)
        g == Meshgrid(x, y)
        pX_Y == IF y_cond = None THEN None ELSE Conditional(x, n, p, mu, Val(y_cond))
        num == NextNum(figs)
    IN  \E pXY \in {JointTable(g, n, p, mu)} :
        /\ call' = [fn |-> "harvest", n |-> n, p |-> p, mu |-> mu, y_cond |-> y_cond]
        /\ loc' = [fn |-> "harvest", Ymax |-> ymax, x |-> x, y |-> y,
                   pXY |-> pXY, pY |-> SumAxis1(pXY), pX_Y |-> pX_Y]
        /\ figs' = figs \cup {num}
        /\ ret' = Figure(num, IF y_cond = None THEN 3 ELSE 4)
        /\ rng' = rng

\* The arguments of the calls of harvest: every table entry stays within
\* TLC's integers while n*mu <= MaxLam
HarvestArgs ==
    {a \in [n : 1..MaxN, p : PSet, mu : MuSet,
            y_cond : {None} \cup {Some(v) : v \in 0..MaxYCond}] : a.n * a.mu <= MaxLam}

HarvestFew ==
    {a \in HarvestArgs : a.n = 2 /\ a.mu = 1 /\ a.y_cond \in {None, Some(MaxYCond)}}

HarvestCall(Args) ==
    /\ ncalls' = ncalls + 1
    /\ \E a \in Args : harvest(a.n, a.p, a.mu, a.y_cond)

(***************************************************************************)
(* skattningar(mu=0, sigma=1, n=(10,100), alternativ='muskatt')            *)
(***************************************************************************)
n_sim == 1000
n_plot == 100

AltSet == {"muskatt", "sigmaskatt", "konfint", "bogus", "Konfint", "mu", ""}

\* AltMessage, had the message left out the value received
AltMessageNoValue(alternativ) ==
    <<"The 'alternativ' parameters must be one of ",
      "'muskatt'", ", ", "'sigmaskatt'", " or ", "'konfint'">>

\* lines 118-120: the message, piece by piece
AltMessage(alternativ) ==
    <<"The 'alternativ' parameters must be one of ",
      "'muskatt'", ", ", "'sigmaskatt'", " or ", "'konfint'", "; not ", alternativ>>

Min2(a, b) == IF a <= b THEN a ELSE b
Max2(a, b) == IF a >= b THEN a ELSE b

\* the largest entry of a non-empty sequence of integers
IMax(s) == CHOOSE m \in {s[i] : i \in 1..Len(s)} : \A i \in 1..Len(s) : s[i] <= m

\* line 88: the intervals, one <<lower, upper>> per repetition
Intervals(est, w) == [r \in 1..Len(est) |-> <<est[r] - w, est[r] + w>>]

\* SignTest, had the test been "the product is not -1"
SignTestNotInside(CI, mu) ==
    [r \in 1..Len(CI) |-> Sign(CI[r][1] - mu) * Sign(CI[r][2] - mu) # -1]

\* line 92: np.sign(CI-mu).prod(axis=1) == 1
SignTest(CI, mu) ==
    [r \in 1..Len(CI) |-> Sign(CI[r][1] - mu) * Sign(CI[r][2] - mu) = 1]

\* line 95: I.mean(), the share of True among all entries
BoolMean(I) == Rat(Cardinality({r \in 1..Len(I) : I[r]}), Len(I))

\* line 97: true='r', false='b'
Colours(I) == [r \in 1..Len(I) |-> IF I[r] THEN "r" ELSE "b"]

\* format(p, '.3f'): p in thousandths, rounded
Format3f(q) == (2 * 1000 * q[1] + q[2]) \div (2 * q[2])

\* a[0:k]
Slice(a, k) == SubSeq(a, 1, Min2(k, Len(a)))

\* lines 103-104: the largest |CI - mu| over the plotted intervals
MaxAbsDev(CI, mu) ==
    IMax([r \in 1..Len(CI) |-> Max2(Abs(CI[r][1] - mu), Abs(CI[r][2] - mu))])

skattningar(mu, sigma, n, alternativ) ==
    LET x == Reshape(NormRvs(mu, sigma, n[1] * n_sim, rng), n_sim, n[1])
        y == Reshape(NormRvs(mu, sigma, n[2] * n_sim, RngAfter(rng, n[1] * n_sim)),
                     n_sim, n[2])
        num == NextNum(figs)
        w == [i \in 1..2 |-> ((StdPpf(975) * sigma) \div Unit) \div NpSqrt(n[i])]
    IN  /\ call' = [fn |-> "skattningar", mu |-> mu, sigma |-> sigma, n |-> n,
                    alternativ |-> alternativ]
        /\ rng' = RngAfter(RngAfter(rng, n[1] * n_sim), n[2] * n_sim)
        /\ CASE alternativ = "muskatt" ->
                  \E mu_est \in {<<MeanAxis1(x), MeanAxis1(y)>>} :
                  /\ loc' = [fn |-> "skattningar", mu_est |-> mu_est,
                             width |-> (3 * sigma) \div NpSqrt(Min2(n[1], n[2])),
                             title |-> [i \in 1..2 |->
                                 <<"Skattning av mu, n = ", n[i], " observationer">>],
                             vline |-> mu]
                  /\ figs' = figs \cup {num}
                  /\ ret' = Figure(num, 2)
             [] alternativ = "sigmaskatt" ->
                  /\ loc' = [fn |-> "skattningar", vline |-> (sigma * sigma) \div Unit,
                             title |-> [i \in 1..2 |->
                                 <<"Skattning av s2, n = ", n[i], " observationer">>]]
                  /\ figs' = figs \cup {num}
                  /\ ret' = Figure(num, 2)
             [] alternativ = "konfint" ->
                  \E CI_x \in {Intervals(MeanAxis1(x), w[1])},
                     CI_y \in {Intervals(MeanAxis1(y), w[2])} :
                  \E I_x \in {SignTest(CI_x, mu)}, I_y \in {SignTest(CI_y, mu)} :
                  \E p \in {<<BoolMean(I_x), BoolMean(I_y)>>} :
                  /\ loc' = [fn |-> "skattningar", w |-> w, CI_x |-> CI_x, CI_y |-> CI_y,
                             p |-> p, I_x |-> Colours(I_x), I_y |-> Colours(I_y),
                             width |-> (12 * Max2(MaxAbsDev(Slice(CI_x, n_plot), mu),
                                                  MaxAbsDev(Slice(CI_y, n_plot), mu))) \div 10,
                             vline |-> mu,
                             title |-> [i \in 1..2 |-> <<"Intervall för mu, n = ", n[i]>>],
                             xlabel |-> [i \in 1..2 |->
                                 <<"Andel av 1000 som missar: ", Format3f(p[i])>>],
                             hlines |-> <<
                                 [xminmax |-> Slice(CI_x, n_plot),
                                  colors |-> Slice(Colours(I_x), n_plot)],
                                 [xminmax |-> Slice(CI_y, n_plot),
                                  colors |-> Slice(Colours(I_y), n_plot)] >>]
                  /\ figs' = figs \cup {num}
                  /\ ret' = Figure(num, 2)
             [] OTHER ->
                  /\ loc' = [fn |-> "skattningar"]
                  /\ figs' = figs
                  /\ ret' = ValueError(AltMessage(alternativ))

SkattningarArgs ==
    [mu : {0, Unit}, sigma : {Unit, 2 * Unit}, n : {<<4, 1>>, <<4, 4>>}, alternativ : AltSet]

SkattningarFew ==
    {a \in SkattningarArgs : /\ a.mu = 0 /\ a.sigma = Unit /\ a.n = <<4, 1>>
                             /\ a.alternativ \in {"muskatt", "konfint", "bogus"}}

SkattningarCall(Args) ==
    /\ ncalls' = ncalls + 1
    /\ \E a \in Args : skattningar(a.mu, a.sigma, a.n, a.alternativ)

(***************************************************************************)
(* styrkefkn(mu0, sigma, n, alpha=0.05, riktning='!=', mu_sant=None)       *)
(***************************************************************************)
RiktSet == {"<", ">", "!=", "~=", "=="}

\* RiktMessage, had the message listed only two of the tokens
RiktMessageTwo(riktning) ==
    <<"The 'riktning' parameters must be one of ", "'<'", " or ", "'>'", "; not ", riktning>>

\* lines 56-57: the message, piece by piece
RiktMessage(riktning) ==
    <<"The 'riktning' parameters must be one of ",
      "'!='", ", ", "'<'", " or ", "'>'", "; not ", riktning>>

\* Boundaries, had the two-sided test put alpha, not alpha/2, in each tail
BoundariesFullTails(mu0, s, alpha, riktning) ==
    CASE riktning = "<" ->
            LET k1 == NormPpf(alpha, mu0, s)
            IN  [k1 |-> Fin(k1), k2 |-> PosInf, x_lo |-> k1 - 4 * s, x_hi |-> mu0 + 3 * s]
      [] riktning = ">" ->
            LET k2 == NormPpf(Prob - alpha, mu0, s)
            IN  [k1 |-> NegInf, k2 |-> Fin(k2), x_lo |-> mu0 - 3 * s, x_hi |-> k2 + 4 * s]
      [] riktning = "!=" ->
            LET k1 == NormPpf(alpha, mu0, s)
                k2 == NormPpf(Prob - alpha, mu0, s)
            IN  [k1 |-> Fin(k1), k2 |-> Fin(k2), x_lo |-> k1 - 4 * s, x_hi |-> k2 + 4 * s]

\* lines 42-54: the critical boundaries and the ends of the x axis
Boundaries(mu0, s, alpha, riktning) ==
    CASE riktning = "<" ->
            LET k1 == NormPpf(alpha, mu0, s)
            IN  [k1 |-> Fin(k1), k2 |-> PosInf, x_lo |-> k1 - 4 * s, x_hi |-> mu0 + 3 * s]
      [] riktning = ">" ->
            LET k2 == NormPpf(Prob - alpha, mu0, s)
            IN  [k1 |-> NegInf, k2 |-> Fin(k2), x_lo |-> mu0 - 3 * s, x_hi |-> k2 + 4 * s]
      [] riktning = "!=" ->
            LET k1 == NormPpf(alpha \div 2, mu0, s)
                k2 == NormPpf(Prob - alpha \div 2, mu0, s)
            IN  [k1 |-> Fin(k1), k2 |-> Fin(k2), x_lo |-> k1 - 4 * s, x_hi |-> k2 + 4 * s]

\* lines 60 and 64: 1 - (cdf(k2, mu, s) - cdf(k1, mu, s))
Power(k1, k2, mu, s) == Prob - (NormCdf(k2, mu, s) - NormCdf(k1, mu, s))

\* lines 94-100: where the annotation goes
XText(riktning, x_lo, x_hi, mu0, s) ==
    CASE riktning = "<" -> x_hi - 2 * s
      [] riktning = ">" -> x_lo + s
      [] OTHER -> mu0 - s \div 2

styrkefkn(mu0, sigma, n, alpha, riktning, mu_sant) ==
    LET s == sigma \div NpSqrt(n)
        b == Boundaries(mu0, s, alpha, riktning)
        f == IF mu_sant = None THEN None ELSE Some(Power(b.k1, b.k2, Val(mu_sant), s))
        num == NextNum(figs)
    IN  /\ call' = [fn |-> "styrkefkn", mu0 |-> mu0, sigma |-> sigma, n |-> n,
                    alpha |-> alpha, riktning |-> riktning, mu_sant |-> mu_sant]
        /\ rng' = rng
        /\ IF riktning \in {"<", ">", "!="}
           THEN /\ loc' = [fn |-> "styrkefkn", s |-> s, k1 |-> b.k1, k2 |-> b.k2,
                           x |-> <<b.x_lo, b.x_hi>>,
                           h |-> <<Power(b.k1, b.k2, b.x_lo, s), Power(b.k1, b.k2, b.x_hi, s)>>,
                           f |-> f, x_text |-> XText(riktning, b.x_lo, b.x_hi, mu0, s)]
                /\ figs' = figs \cup {num}
                /\ ret' = Figure(num, IF mu_sant = None THEN 1 ELSE 2)
           ELSE /\ loc' = [fn |-> "styrkefkn", s |-> s]
                /\ figs' = figs
                /\ ret' = ValueError(RiktMessage(riktning))

StyrkefknArgs ==
    [mu0 : {0, Unit}, sigma : {Unit, 2 * Unit}, n : {1, 4}, alpha : {50, 100, 200},
     riktning : RiktSet, mu_sant : {None, Some(0), Some(Unit), Some(Unit + Unit \div 2)}]

StyrkefknFew ==
    {a \in StyrkefknArgs : /\ a.mu0 = 0 /\ a.sigma = Unit /\ a.n = 4 /\ a.alpha = 50
                           /\ a.riktning \in {"<", "!=", "~="}
                           /\ a.mu_sant \in {None, Some(Unit)}}

StyrkefknCall(Args) ==
    /\ ncalls' = ncalls + 1
    /\ \E a \in Args : styrkefkn(a.mu0, a.sigma, a.n, a.alpha, a.riktning, a.mu_sant)

(***************************************************************************)
(* The specifications.  Spec: any sequence of up to MaxCalls calls of the  *)
(* three entry points, each with a few arguments.  SpecHarvest,            *)
(* SpecSkattningar, SpecStyrkefkn: the first call of a process, one entry  *)
(* point with all its arguments.                                           *)
(***************************************************************************)
Harvest == ncalls < MaxCalls /\ HarvestCall(HarvestFew)
Skattningar == ncalls < MaxCalls /\ SkattningarCall(SkattningarFew)
Styrkefkn == ncalls < MaxCalls /\ StyrkefknCall(StyrkefknFew)

Next == Harvest \/ Skattningar \/ Styrkefkn

Spec == Init /\ [][Next]_vars

FirstHarvest == ncalls = 0 /\ HarvestCall(HarvestArgs)
SpecHarvest == Init /\ [][FirstHarvest]_vars

FirstSkattningar == ncalls = 0 /\ SkattningarCall(SkattningarArgs)
SpecSkattningar == Init /\ [][FirstSkattningar]_vars

FirstStyrkefkn == ncalls = 0 /\ StyrkefknCall(StyrkefknArgs)
SpecStyrkefkn == Init /\ [][FirstStyrkefkn]_vars

(***************************************************************************)
(* The claims.                                                             *)
(***************************************************************************)
Contains(msg, piece) == \E i \in 1..Len(msg) : msg[i] = piece
Quoted(name) == "'" \o name \o "'"

AcceptedModes == {"muskatt", "sigmaskatt", "konfint"}
AcceptedDirections == {"<", ">", "!="}

\* C1: skattningar called with a mode string that is none of 'muskatt',
\* 'sigmaskatt', 'konfint' ends in a ValueError whose message holds the
\* offending value and each of the three accepted names; it returns no figure
\* then, and with an accepted name it does not raise the error.
C1_InvalidModeRaises ==
    call.fn = "skattningar" =>
        IF call.alternativ \in AcceptedModes
        THEN ret.kind = "Figure"
        ELSE /\ ret.kind = "ValueError"
             /\ Contains(ret.msg, call.alternativ)
             /\ \A m \in AcceptedModes : Contains(ret.msg, Quoted(m))

C1_Witness ==
    /\ call.fn = "skattningar" /\ call.alternativ = "bogus"
    /\ ret.kind = "ValueError" /\ Contains(ret.msg, "bogus")

\* C2: styrkefkn called with a direction string that is none of '<', '>',
\* '!=' ends in a ValueError whose message holds the offending value and each
\* of the three accepted tokens; it returns no figure then, and with an
\* accepted token it does not raise the error.
C2_InvalidDirectionRaises ==
    call.fn = "styrkefkn" =>
        IF call.riktning \in AcceptedDirections
        THEN ret.kind = "Figure"
        ELSE /\ ret.kind = "ValueError"
             /\ Contains(ret.msg, call.riktning)
             /\ \A d \in AcceptedDirections : Contains(ret.msg, Quoted(d))

C2_Witness ==
    /\ call.fn = "styrkefkn" /\ call.riktning = "~="
    /\ ret.kind = "ValueError" /\ Contains(ret.msg, "~=")

\* C3: in skattningar and in styrkefkn a call that ends in the invalid-value
\* error has had no other effect: it has created no figure and has drawn
\* nothing from the random generator.
C3_ErrorHasNoOtherEffect ==
    [][ret'.kind = "ValueError" => (figs' = figs /\ rng' = rng)]_vars

C3_Witness ==
    /\ call.fn = "skattningar" /\ ret.kind = "ValueError"
    /\ rng >= n_sim * (call.n[1] + call.n[2]) /\ figs = {}

\* C4: for every valid input of harvest with y_cond supplied (p = 0 and p = 1
\* included) the conditional vector is a probability vector: every entry is a
\* number in [0,1] and the entries sum to 1.
C4_ConditionalIsProbabilityVector ==
    (call.fn = "harvest" /\ call.y_cond # None) =>
        /\ Len(loc.pX_Y) = call.n + 1
        /\ \A i \in 1..Len(loc.pX_Y) :
              /\ loc.pX_Y[i].t = "num"
              /\ RLeq(RZero, loc.pX_Y[i].v) /\ RLeq(loc.pX_Y[i].v, ROne)
        /\ PySum(loc.pX_Y) = Num(ROne)

C4_Witness ==
    /\ call.fn = "harvest" /\ call.y_cond # None /\ call.p = RZero
    /\ \A i \in 1..Len(loc.pX_Y) : loc.pX_Y[i] = NaN

\* C5: whenever y_cond is supplied to harvest, the first entry of the
\* conditional vector (k = 0) is exactly 0.
C5_FirstEntryIsZero ==
    (call.fn = "harvest" /\ call.y_cond # None) => loc.pX_Y[1] = Num(RZero)

C5_Witness ==
    /\ call.fn = "harvest" /\ call.y_cond = Some(1) /\ call.p = RZero
    /\ loc.pX_Y[1] = NaN

\* C6: the marginal vector pY of harvest has one entry per value l of the Y
\* grid, and pY[l] is the sum over the grown counts k = 0..n of
\* P(X=k)*P(Y=l | X=k).
C6_MarginalSumsOverGrownCounts ==
    call.fn = "harvest" =>
        /\ Len(loc.pY) = Len(loc.y)
        /\ \A l \in 1..Len(loc.y) :
              loc.pY[l] = RSum([k \in 1..(call.n + 1) |->
                                  RMul(BinomPmf(k - 1, call.n, call.p),
                                       PoissonPmf(loc.y[l], (k - 1) * call.mu))])

C6_Witness ==
    /\ call.fn = "harvest" /\ call.p = <<1, 2>>
    /\ Len(loc.y) # call.n + 1
    /\ \E l \in 2..Len(loc.y) : loc.pY[l][1] > 0 /\ loc.pY[l] # loc.pXY[l][2]

\* C7: the Y grid of harvest is 0, 1, ..., m where m is the least integer at
\* or above the bound mean + 4 standard deviations of Y, the bound being
\* replaced by y_cond when a supplied y_cond exceeds it; so the grid holds
\* every supplied y_cond, and when y_cond is absent or within the bound the
\* grid is the one of the call without y_cond.
C7_GridHoldsYCond ==
    call.fn = "harvest" =>
        LET E == RMul(RInt(call.n * call.mu), call.p)
            V == RMul(E, RAdd(ROne, RMul(RInt(call.mu), RSub(ROne, call.p))))
            m == Len(loc.y) - 1
            least == GeqBound(m, E, V) /\ (m = 0 \/ ~GeqBound(m - 1, E, V))
        IN  /\ \A i \in 1..Len(loc.y) : loc.y[i] = i - 1
            /\ call.y_cond = None => least
            /\ call.y_cond # None =>
                  /\ \E i \in 1..Len(loc.y) : loc.y[i] = Val(call.y_cond)
                  /\ IF LeqBound(Val(call.y_cond), E, V) THEN least ELSE m = Val(call.y_cond)

C7_Witness ==
    /\ call.fn = "harvest" /\ call.y_cond # None /\ call.p = <<1, 2>>
    /\ ~LeqBound(Val(call.y_cond), tot_E(call.n, call.p, call.mu), tot_V(call.n, call.p, call.mu))
    /\ loc.y[Len(loc.y)] = Val(call.y_cond)

\* C8: for each of the three accepted directions the power function of
\* styrkefkn at the null value mu0 equals alpha; the boundary missing from a
\* one-sided test is infinite.
C8_PowerAtNullIsAlpha ==
    (call.fn = "styrkefkn" /\ ret.kind = "Figure") =>
        /\ Power(loc.k1, loc.k2, call.mu0, loc.s) = call.alpha
        /\ call.mu_sant = Some(call.mu0) => loc.f = Some(call.alpha)
        /\ call.riktning = "<" => (loc.k1.t = "fin" /\ loc.k2 = PosInf)
        /\ call.riktning = ">" => (loc.k1 = NegInf /\ loc.k2.t = "fin")
        /\ call.riktning = "!=" => (loc.k1.t = "fin" /\ loc.k2.t = "fin")

C8_Witness ==
    /\ call.fn = "styrkefkn" /\ call.riktning = "!=" /\ call.sigma = 2 * Unit /\ call.n = 4
    /\ call.mu_sant = Some(call.mu0) /\ call.mu0 = Unit /\ loc.f = Some(call.alpha)

=============================================================================
